---- MODULE Spec2Model ----
(***************************************************************************)
(* The WebSocket subscription engine of nimiq-rpc:                         *)
(* WebSocketClient.subscribe (src/src/client/web-socket.ts).               *)
(*                                                                         *)
(* One subscribe() call owns the closure variables client, disconnects,    *)
(* subscriptionId and forceClose.  Every transport it creates carries the  *)
(* notification, error, open, close and onerror hooks of createClient,     *)
(* which all read and write those same closure variables.  The transport   *)
(* (a WebSocket and the JSON-RPC request pending on it) is the             *)
(* environment: it opens, closes, errors, pushes notifications and         *)
(* settles the request, in any order a socket allows.                      *)
(***************************************************************************)
EXTENDS Integers, Sequences, FiniteSets, TLC

\* ------------------------------------------------------------------ bounds
\* largest maxReconnects option tried
MaxK == 2
\* transports one subscribe() call may create before the model stops it
MaxConns == 3
\* notifications the server pushes in one run
MaxNotifs == 1
\* notifications pushed in the dispatch-only specification
MaxDispatch == 4
\* payloads carry data.number in 1..MaxNumber
MaxNumber == 4
\* subscription identities the server hands out: 1..MaxId
MaxId == 2
\* calls of Subscription.close() followed
MaxCloseCalls == 2

\* ------------------------------------------------------------- vocabulary
NULL == 0

\* request descriptors built by the stream module
Requests ==
  { [method |-> "subscribeForHeadBlockHash", params |-> << >>],
    [method |-> "subscribeForHeadBlock", params |-> << TRUE >>] }

\* callTimeout of DEFAULT_CLIENT_OPTIONS and of the usage example
CallTimeouts == {30000, 10000}

\* stream filters: absent, DEFAULT_STREAM_OPTIONS.filter, "data.number is even"
Filters == {"absent", "all", "even"}

\* JSON-RPC errors the server may push
RpcErrors == { [code |-> -32603, message |-> "Internal error"],
               [code |-> -32601, message |-> "Method not found"] }

\* message of a socket error event
ErrorMessages == { "connection refused" }

Payloads == { [data |-> [number |-> n]] : n \in 1..MaxNumber }

\* endpoint strings, split at "://", ":", the first "/" and "?"; the scheme is
\* kept as its characters, because the constructor rewrites the string's head
Chars(scheme) ==
  CASE scheme = "http"  -> << "h", "t", "t", "p" >>
    [] scheme = "https" -> << "h", "t", "t", "p", "s" >>
    [] scheme = "ws"    -> << "w", "s" >>
    [] scheme = "wss"   -> << "w", "s", "s" >>

Endpoints ==
  [scheme : { Chars(x) : x \in {"http", "https", "ws", "wss"} },
   host   : {"localhost", "node.example"},
   port   : {"", "80", "8648"},
   path   : {"", "/", "/ws", "/rpc"},
   query  : {"", "token=mysecrettoken"}]

\* this.url before the constructor has assigned it
NoUrl ==
  [protocol |-> << >>, hostname |-> "", port |-> "", pathname |-> "", search |-> ""]

\* the endpoint of the usage example, "http://localhost:8648"
ExampleEndpoint ==
  [scheme |-> Chars("http"), host |-> "localhost", port |-> "8648",
   path |-> "", query |-> ""]

VARIABLES
  endpoint,       \* argument url of the WebSocketClient constructor
  url,            \* this.url, NoUrl before the constructor has run
  pc,             \* subscribe(): "idle", "awaiting", "returned", "rejected"
  request,        \* argument request
  options,        \* argument options
  streamOptions,  \* argument streamOptions
  client,         \* let client: index into conns, or NULL
  disconnects,    \* let disconnects
  subscriptionId, \* let subscriptionId
  forceClose,     \* let forceClose
  conns,          \* readyState of every WebSocket created, in creation order
  calls,          \* the client.request issued on each transport
  hooks,          \* the hooks createClient installed on each transport
  timers,         \* pending setTimeout(reconnect) callbacks
  messages,       \* arguments of the onMessage invocations, in order
  notified,       \* history: payloads received by the notification hook
  run,            \* history: unexpected closes / timers scheduled since the last open
  closeLog,       \* history: calls of close() and the transport closes they requested
  limits,         \* how far this run goes: notifications pushed, transports
                  \* created, payload numbers pushed, close() calls made,
                  \* identities handed out
  subs,           \* the subscribe() calls on one client, where several
                  \* subscriptions are followed side by side
  last            \* history: the step just taken and the callbacks it invoked

vars == << endpoint, url, pc, request, options, streamOptions, client, disconnects,
           subscriptionId, forceClose, conns, calls, hooks, timers, messages,
           notified, run, closeLog, limits, subs, last >>

Step(op, fired) == [op |-> op, arg |-> NULL, fired |-> fired]

\* a step together with the event object its hook received
StepOn(op, arg, fired) == [op |-> op, arg |-> arg, fired |-> fired]

\* ------------------------------------------------------- transport (env)
\* WebSocket.close(): a connecting or open socket starts closing
WsCloseCall(ws) == IF ws \in {"connecting", "open"} THEN "closing" ELSE ws

Live(c) == conns[c] \in {"connecting", "open"}
LiveConns == { c \in 1..Len(conns) : Live(c) }

\* ---------------------------------------------------------- pure helpers
\* the filter functions themselves
FilterFn(f, data) ==
  CASE f = "all"  -> TRUE
    [] f = "even" -> data.number % 2 = 0
    [] OTHER      -> TRUE

\* the test of line 163 with its negation lost
Dropped_Inverted(so, result) == so.filter # "absent" /\ FilterFn(so.filter, result.data)

\* line 163: streamOptions.filter && !streamOptions.filter(result.data)
Dropped(so, result) == so.filter # "absent" /\ ~FilterFn(so.filter, result.data)

\* an open listener that leaves the counter alone
OpenResets_Keep(d) == d

\* line 175: the value the open listener stores into disconnects
OpenResets(d) == 0

\* the comparison of line 183 as a strict one
ShouldReconnect_Strict(d, opts) == d < opts.maxReconnects

\* the comparison of line 183 one attempt too generous
ShouldReconnect_OneMore(d, opts) == d <= opts.maxReconnects + 1

\* line 183: disconnects <= options.maxReconnects
ShouldReconnect(d, opts) == d <= opts.maxReconnects

\* line 209 passing the default callTimeout instead of the caller's
RequestArgs_DefaultTimeout(req, opts) == [req |-> req, timeout |-> 30000]

\* line 209: the arguments of client.request
RequestArgs(req, opts) == [req |-> req, timeout |-> opts.callTimeout]

\* a repeating timer (setInterval) in place of line 184's setTimeout
TimerFired_Repeating(t) == t

\* line 184: setTimeout runs its callback once
TimerFired(t) == t - 1

\* the pattern /^https?/ in place of /^http/
ReplaceHttp_DropsTls(s) ==
  IF Len(s) >= 5 /\ SubSeq(s, 1, 5) = << "h", "t", "t", "p", "s" >>
    THEN << "w", "s" >> \o SubSeq(s, 6, Len(s))
    ELSE IF Len(s) >= 4 /\ SubSeq(s, 1, 4) = << "h", "t", "t", "p" >>
           THEN << "w", "s" >> \o SubSeq(s, 5, Len(s))
           ELSE s

\* line 123: url.replace(/^http/, "ws") on the head of the string
ReplaceHttp(s) ==
  IF Len(s) >= 4 /\ SubSeq(s, 1, 4) = << "h", "t", "t", "p" >>
    THEN << "w", "s" >> \o SubSeq(s, 5, Len(s))
    ELSE s

\* the default port of a scheme, which the URL parser leaves out
DefaultPort(scheme) ==
  IF scheme \in { << "w", "s" >>, << "h", "t", "t", "p" >> } THEN "80" ELSE "443"

\* a parser that loses the query string
ParseURL_DropsSearch(e) ==
  [protocol |-> e.scheme,
   hostname |-> e.host,
   port     |-> IF e.port = DefaultPort(e.scheme) THEN "" ELSE e.port,
   pathname |-> IF e.path = "" THEN "/" ELSE e.path,
   search   |-> ""]

\* line 123: new URL(string): default port dropped, empty path read as "/"
ParseURL(e) ==
  [protocol |-> e.scheme,
   hostname |-> e.host,
   port     |-> IF e.port = DefaultPort(e.scheme) THEN "" ELSE e.port,
   pathname |-> IF e.path = "" THEN "/" ELSE e.path,
   search   |-> e.query]

\* lines 122-126: the WebSocketClient constructor
WebSocketClientUrl(e) ==
  [ParseURL([e EXCEPT !.scheme = ReplaceHttp(@)]) EXCEPT !.pathname = "/ws"]

\* an await whose result is not stored
AssignId_Stale(old, id) == old

\* lines 201, 212: subscriptionId = await requestSubscription(url)
AssignId(old, id) == id

\* a close() that leaves the transport alone
ClientClose_Skip(cs, cl) == cs

\* lines 198, 217: client?.close()
ClientClose(cs, cl) == IF cl = NULL THEN cs ELSE [cs EXCEPT ![cl] = WsCloseCall(@)]

\* the hooks of createClient
Hooks == {"notification", "error", "open", "close", "onerror"}

\* a createClient that installs no notification hook
createClient_Deaf(u) == Hooks \ {"notification"}

\* lines 155-195: createClient(url): the hooks set on the new transport
createClient(u) == Hooks

\* lines 204-210: requestSubscription with client = NULL: createClient, then
\* client.request, which waits for the socket to open before it sends
requestSubscription(cs, who) ==
  [conns |-> Append(cs, "connecting"),
   hooks |-> createClient(url),
   call  |-> [who |-> who, status |-> "waitOpen",
              args |-> RequestArgs(request, options)]]

\* ---------------------------------------------------------------- Init
InitCommon ==
  /\ pc = "idle"
  /\ client = NULL
  /\ disconnects = 0
  /\ subscriptionId = 0
  /\ forceClose = FALSE
  /\ conns = << >>
  /\ calls = << >>
  /\ hooks = << >>
  /\ timers = 0
  /\ messages = << >>
  /\ notified = << >>
  /\ run = [closes |-> 0, scheduled |-> 0]
  /\ closeLog = [calls |-> 0, requests |-> 0]
  /\ last = Step("init", << >>)

\* a single subscription is followed in the variables of its own
InitSingle ==
  /\ InitCommon
  /\ subs = << >>

\* the connection state machine, under the default stream options, of a
\* client constructed for the example endpoint; the server pushes one kind of
\* payload, which the default filter accepts like any other
Init ==
  /\ InitSingle
  /\ endpoint = ExampleEndpoint
  /\ url = WebSocketClientUrl(endpoint)
  /\ request \in Requests
  /\ streamOptions = [filter |-> "all"]
  /\ options \in [maxReconnects : 1..MaxK, callTimeout : CallTimeouts,
                  reconnectTimeout : {3000}]
  /\ limits = [notifs |-> MaxNotifs, conns |-> MaxConns, numbers |-> 1,
              closes |-> MaxCloseCalls, ids |-> MaxId]

\* ------------------------------------------------------------- actions
\* lines 150-212: subscribe() up to its first await
Subscribe ==
  /\ pc = "idle"
  /\ LET r == requestSubscription(conns, "subscribe") IN
       /\ conns' = r.conns
       /\ calls' = Append(calls, r.call)
       /\ hooks' = Append(hooks, r.hooks)
       /\ client' = Len(r.conns)
  /\ pc' = "awaiting"
  /\ last' = Step("subscribe", << >>)
  /\ UNCHANGED << request, options, streamOptions, disconnects, subscriptionId,
                  forceClose, timers, messages, notified, run, closeLog, limits,
                  endpoint, url, subs >>

\* an open listener that replays the notifications received so far
WsOpen_Replays(c) ==
  /\ conns[c] = "connecting"
  /\ conns' = [conns EXCEPT ![c] = "open"]
  /\ disconnects' = OpenResets(disconnects)
  /\ calls' = [calls EXCEPT ![c].status = IF @ = "waitOpen" THEN "sent" ELSE @]
  /\ run' = [closes |-> 0, scheduled |-> 0]
  /\ messages' = messages \o notified
  /\ last' = Step("open", [i \in 1..Len(notified) |->
                             [cb |-> "onMessage", arg |-> notified[i]]])
  /\ UNCHANGED << pc, request, options, streamOptions, client, subscriptionId,
                  forceClose, timers, notified, closeLog, limits,
                  endpoint, url, hooks, subs >>

\* lines 174-176: the open listener; the request waiting on the socket is sent
WsOpen(c) ==
  /\ conns[c] = "connecting"
  /\ conns' = [conns EXCEPT ![c] = "open"]
  /\ disconnects' = IF "open" \in hooks[c] THEN OpenResets(disconnects)
                                            ELSE disconnects
  /\ calls' = [calls EXCEPT ![c].status = IF @ = "waitOpen" THEN "sent" ELSE @]
  /\ run' = IF "open" \in hooks[c] THEN [closes |-> 0, scheduled |-> 0] ELSE run
  /\ last' = Step("open", << >>)
  /\ UNCHANGED << pc, request, options, streamOptions, client, subscriptionId,
                  forceClose, timers, messages, notified, closeLog, limits,
                  endpoint, url, hooks, subs >>

\* a close listener without the early return of line 179
Returns_Never(fc) == FALSE

\* lines 179-181: if (forceClose) return
Returns(fc) == fc

\* lines 178-188: the close listener
WsClose(c) ==
  /\ conns[c] \in {"connecting", "open", "closing"}
  /\ conns' = [conns EXCEPT ![c] = "closed"]
  /\ IF "close" \notin hooks[c] \/ Returns(forceClose)
       THEN UNCHANGED << disconnects, timers, run >>
       ELSE /\ disconnects' = disconnects + 1
            /\ timers' = IF ShouldReconnect(disconnects + 1, options)
                           THEN timers + 1 ELSE timers
            /\ run' = [closes |-> run.closes + 1,
                       scheduled |-> run.scheduled + (timers' - timers)]
  /\ last' = Step("close", << >>)
  /\ UNCHANGED << pc, request, options, streamOptions, client, subscriptionId,
                  forceClose, calls, messages, notified, closeLog, limits,
                  endpoint, url, hooks, subs >>

\* line 191: wsCallbacks.onConnectionError?.(new Error(event.message))
OnConnectionErrorCalls(msg) ==
  << [cb |-> "onConnectionError", arg |-> [name |-> "Error", message |-> msg]] >>

\* an onerror handler that treats the error as a disconnect
WsError_Counts(c) ==
  /\ conns[c] \in {"connecting", "open", "closing"}
  /\ disconnects <= options.maxReconnects
  /\ \E msg \in ErrorMessages :
       last' = StepOn("error", msg, OnConnectionErrorCalls(msg))
  /\ disconnects' = disconnects + 1
  /\ timers' = timers + 1
  /\ UNCHANGED << pc, request, options, streamOptions, client,
                  subscriptionId, forceClose, conns, calls, messages,
                  notified, run, closeLog, limits,
                  endpoint, url, hooks, subs >>

\* lines 190-192: transport.connection.onerror
WsError(c) ==
  /\ conns[c] \in {"connecting", "open", "closing"}
  /\ \E msg \in ErrorMessages :
       last' = StepOn("error", msg, IF "onerror" \in hooks[c]
                                      THEN OnConnectionErrorCalls(msg) ELSE << >>)
  /\ UNCHANGED << pc, request, options, streamOptions, client, disconnects,
                  subscriptionId, forceClose, conns, calls, timers, messages,
                  notified, run, closeLog, limits,
                  endpoint, url, hooks, subs >>

\* lines 159-168: the notification hook (the step remembers the transport the
\* notification arrived on)
Notification(c, m) ==
  /\ conns[c] = "open"
  /\ m.data.number <= limits.numbers
  /\ Len(notified) < limits.notifs
  /\ notified' = Append(notified, m)
  /\ IF "notification" \notin hooks[c] \/ Dropped(streamOptions, m)
       THEN /\ messages' = messages
            /\ last' = StepOn("notification", c, << >>)
       ELSE /\ messages' = Append(messages, m)
            /\ last' = StepOn("notification", c, << [cb |-> "onMessage", arg |-> m] >>)
  /\ UNCHANGED << pc, request, options, streamOptions, client, disconnects,
                  subscriptionId, forceClose, conns, calls, timers, run, closeLog, limits,
                  endpoint, url, hooks, subs >>

\* a protocol-error hook that swallows the error
OnErrorCalls_Swallowed(error) == << >>

\* line 171: wsCallbacks.onError?.(error)
OnErrorCalls(error) == << [cb |-> "onError", arg |-> error] >>

\* lines 170-172: the protocol-error hook
RpcError(c, error) ==
  /\ conns[c] = "open"
  /\ last' = StepOn("rpcError", error, IF "error" \in hooks[c]
                                          THEN OnErrorCalls(error) ELSE << >>)
  /\ UNCHANGED << pc, request, options, streamOptions, client, disconnects,
                  subscriptionId, forceClose, conns, calls, timers, messages,
                  notified, run, closeLog, limits,
                  endpoint, url, hooks, subs >>

\* lines 201, 212-222: the awaited request resolves with the identity id
CallResolve(c, id) ==
  /\ conns[c] = "open"
  /\ calls[c].status = "sent"
  /\ calls' = [calls EXCEPT ![c].status = "resolved"]
  /\ subscriptionId' = AssignId(subscriptionId, id)
  /\ pc' = IF calls[c].who = "subscribe" THEN "returned" ELSE pc
  /\ last' = StepOn(IF calls[c].who = "subscribe" THEN "resolveSubscribe"
                                                   ELSE "resolveReconnect", id, << >>)
  /\ UNCHANGED << request, options, streamOptions, client, disconnects,
                  forceClose, conns, timers, messages, notified, run, closeLog, limits,
                  endpoint, url, hooks, subs >>

\* lines 201, 212: the awaited request rejects (error response or callTimeout).
\* The rejection of the first call rejects subscribe(); the rejection of a
\* reconnect's call rejects the promise of reconnect(url), which line 185
\* neither awaits nor catches: the runtime reports an unhandled rejection
CallReject(c) ==
  /\ calls[c].status = "sent"
  /\ calls' = [calls EXCEPT ![c].status = "rejected"]
  /\ pc' = IF calls[c].who = "subscribe" THEN "rejected" ELSE pc
  /\ last' = IF calls[c].who = "subscribe"
              THEN Step("rejectSubscribe", << >>)
              ELSE Step("rejectReconnect", << [cb |-> "unhandledrejection"] >>)
  /\ UNCHANGED << request, options, streamOptions, client, disconnects,
                  subscriptionId, forceClose, conns, timers, messages, notified,
                  run, closeLog, limits,
                  endpoint, url, hooks, subs >>

\* lines 184-186, 197-210: the reconnect timer fires and runs reconnect(url)
\* up to its await
TimerFire ==
  /\ timers > 0
  /\ Len(conns) < limits.conns
  /\ timers' = TimerFired(timers)
  /\ LET r == requestSubscription(ClientClose(conns, client), "reconnect") IN
       /\ conns' = r.conns
       /\ calls' = Append(calls, r.call)
       /\ hooks' = Append(hooks, r.hooks)
       /\ client' = Len(r.conns)
  /\ last' = Step("reconnect", << >>)
  /\ UNCHANGED << pc, request, options, streamOptions, disconnects,
                  subscriptionId, forceClose, messages, notified, run, closeLog, limits,
                  endpoint, url, subs >>

\* a close() that returns early once the flag is set
CloseRequests_Guarded(fc, cl) == IF fc \/ cl = NULL THEN 0 ELSE 1

\* line 217: the transport closes one call of close() requests: client?.close()
\* runs whenever client is set, whatever forceClose was
CloseRequests(fc, cl) == IF cl = NULL THEN 0 ELSE 1

\* lines 215-218: Subscription.close (the step remembers which step it
\* followed)
Close ==
  /\ pc = "returned"
  /\ closeLog.calls < limits.closes
  /\ forceClose' = TRUE
  /\ conns' = IF CloseRequests(forceClose, client) > 0
               THEN ClientClose(conns, client) ELSE conns
  /\ closeLog' = [calls |-> closeLog.calls + 1,
                  requests |-> closeLog.requests + CloseRequests(forceClose, client)]
  /\ last' = StepOn("closeCall", last.op, << >>)
  /\ UNCHANGED << pc, request, options, streamOptions, client, disconnects,
                  subscriptionId, calls, timers, messages, notified, run, limits,
                  endpoint, url, hooks, subs >>

Next ==
  \/ Subscribe
  \/ \E c \in 1..Len(conns) : WsOpen(c)
  \/ \E c \in 1..Len(conns) : WsClose(c)
  \/ \E c \in 1..Len(conns) : WsError(c)
  \/ \E c \in 1..Len(conns), m \in Payloads : Notification(c, m)
  \/ \E c \in 1..Len(conns), error \in RpcErrors : RpcError(c, error)
  \/ \E c \in 1..Len(conns), id \in 1..limits.ids : CallResolve(c, id)
  \/ \E c \in 1..Len(conns) : CallReject(c)
  \/ TimerFire
  \/ Close

Spec == Init /\ [][Next]_vars

\* notification dispatch followed over a longer stream, on a subscription
\* with maxReconnects = 1 that creates its first transport and one more
InitDispatch ==
  /\ InitSingle
  /\ endpoint = ExampleEndpoint
  /\ url = WebSocketClientUrl(endpoint)
  /\ request = [method |-> "subscribeForHeadBlock", params |-> << TRUE >>]
  /\ streamOptions \in [filter : Filters]
  /\ options \in [maxReconnects : {1}, callTimeout : {30000},
                  reconnectTimeout : {3000}]
  /\ limits = [notifs |-> MaxDispatch, conns |-> options.maxReconnects + 1,
              numbers |-> MaxNumber, closes |-> 1, ids |-> 1]

SpecDispatch == InitDispatch /\ [][Next]_vars

\* the constructor alone, over the endpoints a caller may pass
InitUrl ==
  /\ InitSingle
  /\ endpoint \in Endpoints
  /\ url = NoUrl
  /\ request = [method |-> "subscribeForHeadBlockHash", params |-> << >>]
  /\ streamOptions = [filter |-> "all"]
  /\ options = [maxReconnects |-> 5, callTimeout |-> 30000,
                reconnectTimeout |-> 3000]
  /\ limits = [notifs |-> 0, conns |-> 0, numbers |-> 0, closes |-> 0,
              ids |-> 0]

\* lines 122-126: new WebSocketClient(url)
Construct ==
  /\ url = NoUrl
  /\ url' = WebSocketClientUrl(endpoint)
  /\ last' = Step("construct", << >>)
  /\ UNCHANGED << endpoint, pc, request, options, streamOptions, client,
                  disconnects, subscriptionId, forceClose, conns, calls, timers,
                  messages, notified, run, closeLog, limits, hooks, subs >>

\* line 156: url.toString(), the endpoint string of a URL
toString(u) ==
  [scheme |-> u.protocol, host |-> u.hostname, port |-> u.port,
   path |-> u.pathname, query |-> u.search]

\* lines 122-126: new WebSocketClient(s) for the endpoint string s of a
\* client constructed before
Rederive ==
  /\ url # NoUrl
  /\ endpoint' = toString(url)
  /\ url' = WebSocketClientUrl(toString(url))
  /\ last' = Step("rederive", << >>)
  /\ UNCHANGED << pc, request, options, streamOptions, client,
                  disconnects, subscriptionId, forceClose, conns, calls, timers,
                  messages, notified, run, closeLog, limits, hooks, subs >>

NextUrl ==
  \/ Construct
  \/ Rederive

SpecUrl == InitUrl /\ [][NextUrl]_vars

\* ------------------------------------------------ two subscriptions
\* Two subscribe() calls on the same WebSocketClient.  Each call declares its
\* own client, disconnects, subscriptionId and forceClose (lines 150-153) and
\* its own createClient, reconnect and requestSubscription closures; the
\* client object contributes this.url alone.  subs[s] holds the variables of
\* call s, its transports and the deliveries to its callbacks.
Subs == {1, 2}

\* variables declared in the WebSocketClient object and shared by its calls
closure_Shared(s) == 1

\* lines 150-153: the variables the hooks and the handle of call s reach
closure(s) == s

\* lines 150-153: the state of a subscribe() call before its first statement
NewCall ==
  [pc |-> "idle", client |-> NULL, disconnects |-> 0, subscriptionId |-> 0,
   forceClose |-> FALSE, conns |-> << >>, calls |-> << >>, hooks |-> << >>,
   timers |-> 0, messages |-> << >>]

\* callbacks invoked, marked with the subscribe() call they were passed to
FiredFor(s, fired) == [i \in 1..Len(fired) |-> [cb |-> fired[i].cb, sub |-> s]]

\* a step of subscription s that leaves its variables as e
PairStep(s, op, e, fired) ==
  /\ subs' = [subs EXCEPT ![closure(s)] = e]
  /\ last' = StepOn(op, s, FiredFor(s, fired))
  /\ UNCHANGED << endpoint, url, pc, request, options, streamOptions, client,
                  disconnects, subscriptionId, forceClose, conns, calls, hooks,
                  timers, messages, notified, run, closeLog, limits >>

\* lines 150-212: subscribe() up to its first await
PairSubscribe(s) ==
  LET e == subs[closure(s)]
      r == requestSubscription(e.conns, "subscribe") IN
    /\ e.pc = "idle"
    /\ PairStep(s, "subscribe",
                [e EXCEPT !.conns = r.conns, !.calls = Append(@, r.call),
                          !.hooks = Append(@, r.hooks),
                          !.client = Len(r.conns), !.pc = "awaiting"], << >>)

\* lines 174-176: the open listener
PairOpen(s, c) ==
  LET e == subs[closure(s)] IN
    /\ c \in 1..Len(e.conns)
    /\ e.conns[c] = "connecting"
    /\ PairStep(s, "open",
                [e EXCEPT !.conns[c] = "open",
                          !.disconnects = IF "open" \in e.hooks[c]
                                            THEN OpenResets(@) ELSE @,
                          !.calls[c].status = IF @ = "waitOpen" THEN "sent" ELSE @],
                << >>)

\* lines 178-188: the close listener
PairCloseEvent(s, c) ==
  LET e == subs[closure(s)] IN
    /\ c \in 1..Len(e.conns)
    /\ e.conns[c] \in {"connecting", "open", "closing"}
    /\ PairStep(s, "close",
                IF "close" \notin e.hooks[c] \/ Returns(e.forceClose)
                  THEN [e EXCEPT !.conns[c] = "closed"]
                  ELSE [e EXCEPT !.conns[c] = "closed",
                                 !.disconnects = @ + 1,
                                 !.timers = IF ShouldReconnect(e.disconnects + 1, options)
                                              THEN @ + 1 ELSE @],
                << >>)
\* lines 190-192: transport.connection.onerror
PairError(s, c) ==
  LET e == subs[closure(s)] IN
    /\ c \in 1..Len(e.conns)
    /\ e.conns[c] \in {"connecting", "open", "closing"}
    /\ \E msg \in ErrorMessages :
         PairStep(s, "error", e,
                  IF "onerror" \in e.hooks[c] THEN OnConnectionErrorCalls(msg)
                                              ELSE << >>)

\* lines 159-168: the notification hook
PairNotification(s, c, m) ==
  LET e == subs[closure(s)] IN
    /\ c \in 1..Len(e.conns)
    /\ e.conns[c] = "open"
    /\ m.data.number <= limits.numbers
    /\ Len(e.messages) < limits.notifs
    /\ IF "notification" \notin e.hooks[c] \/ Dropped(streamOptions, m)
         THEN PairStep(s, "notification", e, << >>)
         ELSE PairStep(s, "notification", [e EXCEPT !.messages = Append(@, m)],
                       << [cb |-> "onMessage", arg |-> m] >>)

\* lines 170-172: the protocol-error hook
PairRpcError(s, c, error) ==
  LET e == subs[closure(s)] IN
    /\ c \in 1..Len(e.conns)
    /\ e.conns[c] = "open"
    /\ PairStep(s, "rpcError", e,
                IF "error" \in e.hooks[c] THEN OnErrorCalls(error) ELSE << >>)

\* lines 201, 212-222: the awaited request resolves with the identity id
PairResolve(s, c, id) ==
  LET e == subs[closure(s)] IN
    /\ c \in 1..Len(e.conns)
    /\ e.conns[c] = "open"
    /\ e.calls[c].status = "sent"
    /\ PairStep(s, IF e.calls[c].who = "subscribe" THEN "resolveSubscribe"
                                                    ELSE "resolveReconnect",
                [e EXCEPT !.calls[c].status = "resolved",
                          !.subscriptionId = AssignId(@, id),
                          !.pc = IF e.calls[c].who = "subscribe"
                                   THEN "returned" ELSE @],
                << >>)

\* lines 201, 212: the awaited request rejects.  The rejection of the first
\* call rejects subscribe(); the rejection of a reconnect's call rejects the
\* promise of reconnect(url), which line 185 neither awaits nor catches: the
\* runtime reports an unhandled rejection
PairReject(s, c) ==
  LET e == subs[closure(s)] IN
    /\ c \in 1..Len(e.conns)
    /\ e.calls[c].status = "sent"
    /\ PairStep(s, IF e.calls[c].who = "subscribe" THEN "rejectSubscribe"
                                                    ELSE "rejectReconnect",
                [e EXCEPT !.calls[c].status = "rejected",
                          !.pc = IF e.calls[c].who = "subscribe"
                                   THEN "rejected" ELSE @],
                IF e.calls[c].who = "subscribe"
                  THEN << >>
                  ELSE << [cb |-> "unhandledrejection"] >>)

\* lines 184-186, 197-210: the reconnect timer fires and runs reconnect(url)
\* up to its await
PairTimerFire(s) ==
  LET e == subs[closure(s)]
      r == requestSubscription(ClientClose(e.conns, e.client), "reconnect") IN
    /\ e.timers > 0
    /\ Len(e.conns) < limits.conns
    /\ PairStep(s, "reconnect",
                [e EXCEPT !.timers = TimerFired(@), !.conns = r.conns,
                          !.calls = Append(@, r.call),
                          !.hooks = Append(@, r.hooks),
                          !.client = Len(r.conns)], << >>)

\* lines 215-218: Subscription.close of the handle subscribe() call s returned
PairClose(s) ==
  LET e == subs[closure(s)] IN
    /\ e.pc = "returned"
    /\ PairStep(s, "closeCall",
                [e EXCEPT !.forceClose = TRUE,
                          !.conns = IF CloseRequests(e.forceClose, e.client) > 0
                                      THEN ClientClose(e.conns, e.client) ELSE @],
                << >>)

\* two subscribe() calls with the default stream options and maxReconnects = 1,
\* each followed over its first transport and one reconnect
InitPair ==
  /\ InitCommon
  /\ subs = [s \in Subs |-> NewCall]
  /\ endpoint = ExampleEndpoint
  /\ url = WebSocketClientUrl(endpoint)
  /\ request = [method |-> "subscribeForHeadBlockHash", params |-> << >>]
  /\ streamOptions = [filter |-> "all"]
  /\ options = [maxReconnects |-> 1, callTimeout |-> 30000,
                reconnectTimeout |-> 3000]
  /\ limits = [notifs |-> 1, conns |-> options.maxReconnects + 1, numbers |-> 1,
              closes |-> 1, ids |-> MaxId]

NextPair ==
  \E s \in Subs :
    \/ PairSubscribe(s)
    \/ \E c \in 1..Len(subs[s].conns) : PairOpen(s, c)
    \/ \E c \in 1..Len(subs[s].conns) : PairCloseEvent(s, c)
    \/ \E c \in 1..Len(subs[s].conns) : PairError(s, c)
    \/ \E c \in 1..Len(subs[s].conns), m \in Payloads : PairNotification(s, c, m)
    \/ \E c \in 1..Len(subs[s].conns), error \in RpcErrors : PairRpcError(s, c, error)
    \/ \E c \in 1..Len(subs[s].conns), id \in 1..limits.ids : PairResolve(s, c, id)
    \/ \E c \in 1..Len(subs[s].conns) : PairReject(s, c)
    \/ PairTimerFire(s)
    \/ PairClose(s)

SpecPair == InitPair /\ [][NextPair]_vars

\* ------------------------------------------------------ block filters
\* The block-type filters of the stream module (src/unnamed/part_004).  A
\* block is what the node sends as result.data: number is its height, has
\* says whether the object carries the key isElectionBlock, and
\* isElectionBlock is the value under that key.
Blocks ==
  { b \in [number : 1..MaxNumber, has : BOOLEAN, isElectionBlock : BOOLEAN] :
      ~b.has => ~b.isElectionBlock }

\* result.data of a notification that carries no block (null)
NoBlock == [number |-> 0, has |-> FALSE, isElectionBlock |-> FALSE]

\* a getBlockType without the test for the key
getBlockType_KeyNotTested(block) ==
  IF block = NoBlock
    THEN [threw |-> TRUE, value |-> "Block is undefined"]
    ELSE IF block.isElectionBlock
           THEN [threw |-> FALSE, value |-> "election"]
           ELSE [threw |-> FALSE, value |-> "micro"]

\* lines 11-19: getBlockType; it throws or returns a BlockSubscriptionType
getBlockType(block) ==
  IF block = NoBlock
    THEN [threw |-> TRUE, value |-> "Block is undefined"]
    ELSE IF ~block.has
           THEN [threw |-> FALSE, value |-> "micro"]
           ELSE IF block.isElectionBlock
                  THEN [threw |-> FALSE, value |-> "election"]
                  ELSE [threw |-> FALSE, value |-> "macro"]

\* lines 21-23: the filters; each one throws where getBlockType throws
isMicro(b) == [getBlockType(b) EXCEPT !.value = IF getBlockType(b).threw THEN @ ELSE @ = "micro"]
isMacro(b) == [getBlockType(b) EXCEPT !.value = IF getBlockType(b).threw THEN @ ELSE @ = "macro"]
isElection(b) == [getBlockType(b) EXCEPT !.value = IF getBlockType(b).threw THEN @ ELSE @ = "election"]

\* lines 58-99: the subscribe methods that pass a block-type filter
BlockMethods ==
  {"subscribeForElectionBlocks", "subscribeForMicroBlocks", "subscribeForMacroBlocks"}

\* lines 64, 81, 98: { filter: isElection }, { filter: isMicro }, { filter: isMacro }
BlockFilter(method, b) ==
  CASE method = "subscribeForElectionBlocks" -> isElection(b)
    [] method = "subscribeForMicroBlocks"    -> isMicro(b)
    [] method = "subscribeForMacroBlocks"    -> isMacro(b)

\* a subscription made by one of the block methods: how many of the node's
\* notifications its hook has handled, what each one came to, and the
\* arguments of its onMessage invocations
NewBlockSubscription == [seen |-> 0, out |-> << >>, messages |-> << >>]

\* the node announces a head block to its subscribers (env)
HeadBlock(b) ==
  /\ Len(notified) < limits.notifs
  /\ notified' = Append(notified, b)
  /\ last' = Step("headBlock", << >>)
  /\ UNCHANGED << endpoint, url, pc, request, options, streamOptions, client,
                  disconnects, subscriptionId, forceClose, conns, calls, hooks,
                  timers, messages, run, closeLog, limits, subs >>

\* web-socket.ts lines 159-168 with the filter of the method: the filter
\* throws and the hook with it, or the notification is dropped, or onMessage
\* is invoked
BlockNotification(method) ==
  /\ subs[method].seen < Len(notified)
  /\ LET b == notified[subs[method].seen + 1]
         f == BlockFilter(method, b)
         outcome == IF f.threw THEN "raised"
                    ELSE IF ~f.value THEN "dropped" ELSE "delivered" IN
       /\ subs' = [subs EXCEPT ![method] =
                     [seen |-> @.seen + 1,
                      out |-> Append(@.out, outcome),
                      messages |-> IF outcome = "delivered"
                                     THEN Append(@.messages, b) ELSE @.messages]]
       /\ last' = StepOn("blockNotification", method,
                         IF outcome = "delivered"
                           THEN << [cb |-> "onMessage", arg |-> b] >> ELSE << >>)
  /\ UNCHANGED << endpoint, url, pc, request, options, streamOptions, client,
                  disconnects, subscriptionId, forceClose, conns, calls, hooks,
                  timers, messages, notified, run, closeLog, limits >>

\* the three block subscriptions of one client, fed the same head blocks
InitBlocks ==
  /\ InitCommon
  /\ subs = [method \in BlockMethods |-> NewBlockSubscription]
  /\ endpoint = ExampleEndpoint
  /\ url = WebSocketClientUrl(endpoint)
  /\ request = [method |-> "subscribeForHeadBlock", params |-> << TRUE >>]
  /\ streamOptions = [filter |-> "absent"]
  /\ options = [maxReconnects |-> 5, callTimeout |-> 30000,
                reconnectTimeout |-> 3000]
  /\ limits = [notifs |-> 2, conns |-> 0, numbers |-> MaxNumber, closes |-> 0,
              ids |-> 0]

NextBlocks ==
  \/ \E b \in Blocks \cup {NoBlock} : HeadBlock(b)
  \/ \E method \in BlockMethods : BlockNotification(method)

SpecBlocks == InitBlocks /\ [][NextBlocks]_vars

\* ------------------------------------------------------------ properties
K == options.maxReconnects

Min(a, b) == IF a <= b THEN a ELSE b

Fired(cb) == \E i \in 1..Len(last.fired) : last.fired[i].cb = cb

\* the engine state a hook could touch, apart from the callbacks it invokes
engine == << pc, client, disconnects, subscriptionId, forceClose, conns, calls,
             timers >>

\* C1: once close() has been called, the connection the engine holds as its
\* live one is never a connecting or open socket: a reconnect that was in
\* flight at the time of close() has its new connection closed at once and
\* not adopted.
C1_ReconnectAfterCloseNotAdopted ==
  forceClose => (client = NULL \/ ~Live(client))

\* C2: after close() has returned, no step of the engine invokes onMessage.
C2_NoMessageAfterClose ==
  forceClose => ~Fired("onMessage")

\* C3: after close() has been called, no step creates a transport connection
\* and no step schedules a reconnect timer.
C3_NoConnectionAfterClose ==
  [][forceClose => (Len(conns') = Len(conns) /\ timers' <= timers)]_vars

\* C4: in a run of unexpected closes with no open in between, the number of
\* reconnects scheduled is the number of closes, capped at maxReconnects:
\* K + 1 closes schedule exactly K reconnects.
C4_ExactlyKAttempts ==
  run.scheduled = Min(run.closes, K)

\* C4 witness: maxReconnects = 2, three closes in a row, two reconnects
\* scheduled and run, none pending
C4_Witness ==
  /\ K = 2
  /\ run.closes = K + 1
  /\ run.scheduled = K
  /\ timers = 0
  /\ Len(conns) = K + 1
  /\ \A c \in 2..Len(conns) : calls[c].who = "reconnect"

\* C5 as stated: the K-th unexpected close of a run schedules no reconnect.
C5_KthCloseSchedulesNothing ==
  (last.op = "close" /\ ~forceClose /\ run.closes = K) => timers = 0

\* C5 amended: after K + 1 unexpected closes in a row the state is terminal:
\* no reconnect is pending, no socket is connecting or open, and no step
\* creates a connection or schedules a reconnect; the K-th close of the run
\* is the last one that schedules a reconnect.
C5_TerminalAfterKPlusOne ==
  /\ [](run.closes > K => (timers = 0 /\ LiveConns = {}))
  /\ [][run.closes > K => (Len(conns') = Len(conns) /\ timers' = 0)]_vars
  /\ []((last.op = "close" /\ ~forceClose /\ run.closes = K /\ K > 0) => timers = 1)

\* C5 witness: the (K+1)-th close of a run has just happened
C5_Witness ==
  /\ last.op = "close"
  /\ ~forceClose
  /\ run.closes = K + 1
  /\ timers = 0

\* C6: when the re-subscribe call of a reconnect resolves the counter is 0,
\* and the counter always equals the number of unexpected closes since the
\* last open, whatever happened before that open.
C6_ReconnectResetsCounter ==
  /\ last.op = "resolveReconnect" => disconnects = 0
  /\ disconnects = run.closes

\* C6 witness: a reconnect succeeded after an earlier disconnect, and the run
\* of closes after it used a full budget of K reconnects again
C6_Witness ==
  /\ \E c \in 2..Len(conns) :
        /\ calls[c].who = "reconnect"
        /\ calls[c].status = "resolved"
        /\ c < Len(conns)
  /\ run.closes = K + 1
  /\ run.scheduled = K

\* C7: every subscribe call issued, initial or by a reconnect, carries the
\* caller's request and the caller's callTimeout.
C7_SameRequestEveryCall ==
  \A c \in 1..Len(calls) :
     /\ calls[c].args.req = request
     /\ calls[c].args.timeout = options.callTimeout

\* C7 witness: two reconnects re-issued a request with a non-default timeout
C7_Witness ==
  /\ Len(calls) = 3
  /\ calls[3].who = "reconnect"
  /\ calls[3].args.req.params # << >>
  /\ options.callTimeout = 10000

\* the filter as the caller means it: an absent filter accepts everything
Accepts(m) == streamOptions.filter = "absent" \/ FilterFn(streamOptions.filter, m.data)

\* C8: onMessage is invoked with m exactly for the notifications m the filter
\* accepts, and a notification the filter rejects invokes no callback.
C8_FilterDecidesDelivery ==
  /\ messages = SelectSeq(notified, Accepts)
  /\ last.op = "notification" =>
       last.fired = IF Accepts(notified[Len(notified)])
                      THEN << [cb |-> "onMessage", arg |-> notified[Len(notified)]] >>
                      ELSE << >>

\* C8 witness: filter "even", payloads 1,2,3,4: onMessage called with 2 and 4
C8_Witness ==
  /\ streamOptions.filter = "even"
  /\ notified = << [data |-> [number |-> 1]], [data |-> [number |-> 2]],
                   [data |-> [number |-> 3]], [data |-> [number |-> 4]] >>
  /\ messages = << [data |-> [number |-> 2]], [data |-> [number |-> 4]] >>

\* C9: at most one socket is connecting or open, and a pending reconnect
\* timer excludes both a live socket and a second pending timer.
C9_AtMostOneLive ==
  Cardinality(LiveConns) + timers <= 1

\* C9 witness: a reconnect has just replaced a connection by a new one
C9_Witness ==
  /\ last.op = "reconnect"
  /\ Len(conns) >= 2
  /\ LiveConns = {Len(conns)}
  /\ client = Len(conns)

\* C10: once subscribe() has rejected, no step schedules a reconnect timer or
\* creates a transport connection.
C10_NoRetryAfterInitialFailure ==
  [][pc = "rejected" => (Len(conns') = Len(conns) /\ timers' <= timers)]_vars

\* C11: while subscribe() has not yet returned a handle, no step invokes
\* onConnectionError: a connection-level error of that phase is reported by
\* the rejection of subscribe() alone.
C11_NoConnectionErrorBeforeFirstSubscription ==
  pc = "awaiting" => ~Fired("onConnectionError")

\* C12: when the re-subscribe call of a reconnect rejects, the failure is
\* handed to onError or onConnectionError and is not left as an unhandled
\* rejection.
C12_ReconnectFailureReachesCallback ==
  last.op = "rejectReconnect" =>
    /\ Fired("onError") \/ Fired("onConnectionError")
    /\ ~Fired("unhandledrejection")

\* lines 219: getSubscriptionId
getSubscriptionId == subscriptionId

\* C13: a handle exists only once the first subscribe call has resolved, and
\* at the moment subscribe() returns it getSubscriptionId() is the identity
\* the server returned for that call.
C13_HandleAfterFirstIdentity ==
  /\ pc = "returned" => (calls[1].who = "subscribe" /\ calls[1].status = "resolved")
  /\ last.op = "resolveSubscribe" =>
       /\ pc = "returned"
       /\ getSubscriptionId = last.arg

\* C13 witness: subscribe() has just returned a handle for identity 2
C13_Witness ==
  /\ last.op = "resolveSubscribe"
  /\ last.arg = 2
  /\ pc = "returned"
  /\ getSubscriptionId = 2

\* C14: when a subscribe call resolves, getSubscriptionId() becomes the
\* identity it resolved with, and no other step changes it: a close event, a
\* rejected call, a reconnect being started and close() leave it alone.  So
\* it is always the identity of the most recently resolved call.
C14_IdOfMostRecentResolvedCall ==
  [][/\ last'.op \in {"resolveSubscribe", "resolveReconnect"} =>
          getSubscriptionId' = last'.arg
     /\ getSubscriptionId' # getSubscriptionId =>
          last'.op \in {"resolveSubscribe", "resolveReconnect"}]_vars

\* C14 witness: a second reconnect has just been started and the handle still
\* answers with the identity the first reconnect had obtained
C14_Witness ==
  /\ pc = "returned"
  /\ last.op = "reconnect"
  /\ Len(calls) = 3
  /\ calls[2].status = "resolved"
  /\ calls[3].status = "waitOpen"
  /\ getSubscriptionId = 2

\* C15: a server protocol error invokes onError with that very error, and the
\* step changes nothing else: counter, flag, identity, connections and
\* pending timers stay as they are.
C15_ProtocolErrorOnlyCallsOnError ==
  [][last'.op = "rpcError" =>
       /\ last'.fired = << [cb |-> "onError", arg |-> last'.arg] >>
       /\ UNCHANGED engine]_vars

\* C15 witness: a protocol error arrived on the transport of a reconnect
\* while the counter was 0 and nothing was scheduled
C15_Witness ==
  /\ last.op = "rpcError"
  /\ last.arg.code = -32601
  /\ Fired("onError")
  /\ Len(conns) = 2
  /\ conns[2] = "open"
  /\ timers = 0

\* C16: a connection-level error event invokes onConnectionError and changes
\* nothing else; the counter grows and a reconnect is scheduled only in the
\* step of a close event.
C16_ErrorEventCausesNoTransition ==
  [][/\ last'.op = "error" =>
          /\ last'.fired = OnConnectionErrorCalls(last'.arg)
          /\ UNCHANGED engine
     /\ (disconnects' > disconnects \/ timers' > timers) => last'.op = "close"]_vars

\* C16 witness: an error event on an open transport of a subscription that is
\* established, with no reconnect scheduled by it
C16_Witness ==
  /\ last.op = "error"
  /\ Fired("onConnectionError")
  /\ pc = "returned"
  /\ conns[client] = "open"
  /\ disconnects = 0
  /\ timers = 0

\* C17: every call of close() leaves the flag set and no socket connecting or
\* open, and does not touch counter and identity; a call that directly
\* follows another call of close() changes nothing at all in the engine, so
\* N calls in a row end in the state one call ends in.
C17_CloseIdempotent ==
  [][closeLog'.calls > closeLog.calls =>
       /\ forceClose'
       /\ LiveConns' = {}
       /\ UNCHANGED << disconnects, subscriptionId >>
       /\ last.op = "closeCall" => UNCHANGED engine]_vars

\* C17 witness: close() called twice in a row on a connected subscription
C17_Witness ==
  /\ last.op = "closeCall"
  /\ last.arg = "closeCall"
  /\ closeLog.calls = 2
  /\ Len(conns) = 1
  /\ conns[1] = "closing"
  /\ forceClose

\* C18 as stated: a call of close() that directly follows another one
\* requests no close on the transport.
C18_SecondCloseRequestsNothing ==
  [][(last.op = "closeCall" /\ closeLog'.calls > closeLog.calls) =>
        closeLog'.requests = closeLog.requests]_vars

\* C18 amended: a call of close() that directly follows another one requests
\* close on the transport once more, and that request has no effect: no
\* socket changes state and nothing is scheduled.
C18_SecondCloseHasNoEffect ==
  [][(last.op = "closeCall" /\ closeLog'.calls > closeLog.calls) =>
        /\ closeLog'.requests = closeLog.requests + 1
        /\ conns' = conns
        /\ timers' = timers]_vars

\* C18 witness: two calls of close() in a row, two close requests, and the
\* socket still in the state the first call left it in
C18_Witness ==
  /\ last.op = "closeCall"
  /\ last.arg = "closeCall"
  /\ closeLog.requests = 2
  /\ conns[client] = "closing"

\* the port a URL connects to
EffectivePort(scheme, port) == IF port = "" THEN DefaultPort(scheme) ELSE port

\* C19: for an http or https endpoint without a path the derived endpoint has
\* scheme ws or wss respectively, the same host, the same port and the path
\* /ws; http://localhost:8648 gives ws://localhost:8648/ws.
C19_DerivedEndpoint ==
  (url # NoUrl /\ endpoint.path = "" /\ endpoint.scheme \in {Chars("http"), Chars("https")}) =>
    /\ url.protocol = IF endpoint.scheme = Chars("http") THEN Chars("ws") ELSE Chars("wss")
    /\ url.hostname = endpoint.host
    /\ EffectivePort(url.protocol, url.port) = EffectivePort(endpoint.scheme, endpoint.port)
    /\ url.pathname = "/ws"
    /\ endpoint = ExampleEndpoint =>
         url = [protocol |-> << "w", "s" >>, hostname |-> "localhost",
                port |-> "8648", pathname |-> "/ws", search |-> ""]

\* C19 witness: the client constructed for http://localhost:8648 holds
\* ws://localhost:8648/ws
C19_Witness ==
  /\ endpoint = ExampleEndpoint
  /\ url # NoUrl
  /\ url.protocol = Chars("ws")
  /\ url.hostname = "localhost"
  /\ url.port = "8648"
  /\ url.pathname = "/ws"

\* C20: an endpoint that names a path other than /ws keeps that path in the
\* derived endpoint.
C20_GivenPathKept ==
  (url # NoUrl /\ endpoint.path \notin {"", "/", "/ws"}) => url.pathname = endpoint.path

\* C21: onMessage is invoked in the step in which a notification arrives and
\* in no other: each accepted notification is appended to the deliveries once,
\* in arrival order, and an open, a close or a reconnect delivers nothing, so
\* nothing received before a disconnect is delivered after the reconnect.
C21_DeliveredOnArrivalOnly ==
  [][/\ last'.op = "notification" =>
          /\ Len(notified') = Len(notified) + 1
          /\ messages' = IF Accepts(notified'[Len(notified')])
                           THEN Append(messages, notified'[Len(notified')])
                           ELSE messages
     /\ last'.op # "notification" =>
          /\ messages' = messages
          /\ notified' = notified
          /\ ~Fired("onMessage")']_vars

\* C21 witness: notifications 1, 2 arrived on the first connection, which
\* then dropped; the reconnect's connection has just opened and the
\* deliveries are still the single accepted one
C21_Witness ==
  /\ streamOptions.filter = "even"
  /\ Len(conns) = 2
  /\ conns[1] = "closed"
  /\ conns[2] = "open"
  /\ last.op = "open"
  /\ notified = << [data |-> [number |-> 1]], [data |-> [number |-> 2]] >>
  /\ messages = << [data |-> [number |-> 2]] >>

\* one of the caller's callbacks was invoked by the last step
CallbackFired == Fired("onMessage") \/ Fired("onError") \/ Fired("onConnectionError")

\* C22: once the counter exceeds maxReconnects the subscription stays
\* inactive for good: the counter stays above maxReconnects, no timer is
\* pending, no socket is connecting or open, no connection is created and
\* none of onMessage, onError, onConnectionError is invoked; the step that
\* takes the counter above maxReconnects is a close event and invokes none of
\* them either.
C22_ExhaustedIsSilentAndTerminal ==
  [][/\ disconnects > K =>
          /\ disconnects' > K
          /\ timers = 0 /\ timers' = 0
          /\ LiveConns = {} /\ LiveConns' = {}
          /\ Len(conns') = Len(conns)
          /\ ~CallbackFired'
     /\ (disconnects <= K /\ disconnects' > K) =>
          /\ last'.op = "close"
          /\ ~CallbackFired'
          /\ timers' = 0
          /\ LiveConns' = {}]_vars

\* C22 witness: maxReconnects = 2; an established subscription lost its
\* connection and both reconnects' connections, and the third close has just
\* exhausted the attempts
C22_Witness ==
  /\ K = 2
  /\ pc = "returned"
  /\ disconnects = K + 1
  /\ Len(conns) = 3
  /\ \A c \in 1..3 : conns[c] = "closed"
  /\ timers = 0
  /\ last.op = "close"
  /\ last.fired = << >>

\* C23: a close event that arrives while the flag is set, the one caused by
\* close() itself included, leaves the counter unchanged and schedules no
\* reconnect; a close event that arrives while the flag is unset adds exactly
\* 1 to the counter.
C23_ForcedCloseNotCounted ==
  [][last'.op = "close" =>
       IF forceClose
         THEN disconnects' = disconnects /\ timers' = timers
         ELSE disconnects' = disconnects + 1]_vars

\* C23 witness: close() was called on a connected subscription and the close
\* event it caused has just arrived: counter 0, nothing scheduled
C23_Witness ==
  /\ last.op = "close"
  /\ forceClose
  /\ closeLog.requests = 1
  /\ Len(conns) = 1
  /\ conns[client] = "closed"
  /\ calls[client].status = "resolved"
  /\ disconnects = 0
  /\ timers = 0

\* C24: every transport the engine creates, by subscribe() or by a
\* reconnect, is a new one that starts connecting, becomes the engine's
\* client and carries all five hooks; and a notification arriving on any of
\* them, the initial one or a reconnect's, is filtered and handed to the one
\* onMessage in the same way.
C24_EveryTransportFullyHooked ==
  /\ [](/\ Len(hooks) = Len(conns)
        /\ \A c \in 1..Len(conns) : hooks[c] = Hooks)
  /\ [][/\ Len(conns') # Len(conns) =>
             /\ last'.op \in {"subscribe", "reconnect"}
             /\ Len(conns') = Len(conns) + 1
             /\ conns'[Len(conns')] = "connecting"
             /\ client' = Len(conns')
             /\ \A c \in 1..Len(conns) : ~Live(c) \/ c = client
        /\ last'.op = "notification" =>
             /\ conns[last'.arg] = "open"
             /\ messages' = IF FilterFn(streamOptions.filter,
                                        notified'[Len(notified')].data)
                              THEN Append(messages, notified'[Len(notified')])
                              ELSE messages]_vars

\* C24 witness: after a successful reconnect the second transport received a
\* notification the filter accepts and one it rejects; the deliveries hold
\* the accepted ones of both transports
C24_Witness ==
  /\ streamOptions.filter = "even"
  /\ Len(conns) = 2
  /\ conns = << "closed", "open" >>
  /\ calls[2].who = "reconnect"
  /\ calls[2].status = "resolved"
  /\ last.op = "notification"
  /\ last.arg = 2
  /\ notified = << [data |-> [number |-> 2]], [data |-> [number |-> 1]],
                   [data |-> [number |-> 4]], [data |-> [number |-> 3]] >>
  /\ messages = << [data |-> [number |-> 2]], [data |-> [number |-> 4]] >>

\* C25: the counter is always between 0 and maxReconnects + 1, and while a
\* reconnect timer is pending the counter has the value it had when the timer
\* was scheduled, which is between 1 and maxReconnects.
C25_CounterBounded ==
  /\ 0 <= disconnects
  /\ disconnects <= K + 1
  /\ timers > 0 => (1 <= disconnects /\ disconnects <= K)

\* C25 witness: maxReconnects = 2; the second close in a row has just
\* scheduled the last reconnect the counter allows
C25_Witness ==
  /\ K = 2
  /\ last.op = "close"
  /\ disconnects = K
  /\ timers = 1
  /\ Len(conns) = 2

\* every transport created so far opened and then closed, and no subscribe
\* call has resolved
AllOpenedThenClosedUnresolved ==
  /\ Len(conns) > 0
  /\ \A c \in 1..Len(conns) :
        /\ conns[c] = "closed"
        /\ calls[c].status \in {"sent", "rejected"}

\* C26: the open event resets the counter to 0 whether or not the subscribe
\* call on that connection has resolved; so when every connection so far has
\* opened and closed without its call resolving, the counter is 1 and the
\* next reconnect is pending, however many connections that has been.
C26_OpenAloneResetsCounter ==
  /\ [][last'.op = "open" => disconnects' = 0]_vars
  /\ [](AllOpenedThenClosedUnresolved =>
          /\ disconnects = 1
          /\ timers = 1)

\* C26 witness: maxReconnects = 1; MaxConns connections, more than
\* maxReconnects + 1, opened and closed without any call having resolved, and
\* one more reconnect is pending
C26_Witness ==
  /\ K = 1
  /\ Len(conns) = MaxConns
  /\ Len(conns) > K + 1
  /\ AllOpenedThenClosedUnresolved
  /\ pc = "awaiting"
  /\ timers = 1

\* C27: once subscribe() has rejected, no socket of that call is connecting
\* or open, and no step invokes onMessage, onError or onConnectionError.
C27_RejectedSubscribeLeavesNothing ==
  pc = "rejected" => (LiveConns = {} /\ ~CallbackFired)

\* C28: a step of one subscription (an event on one of its transports, its
\* reconnect, a call of its close()) leaves every variable, transport and
\* delivery of the other subscription unchanged and invokes none of the
\* other's callbacks.
C28_SubscriptionsIndependent ==
  [][\A s \in Subs :
       last'.arg # s =>
         /\ subs'[s] = subs[s]
         /\ \A i \in 1..Len(last'.fired) : last'.fired[i].sub # s]_vars

\* C28 witness: the first subscription was closed by its handle; the second,
\* with another identity, lost its connection, reconnected, and has just
\* received a notification that reached its onMessage alone
C28_Witness ==
  /\ subs[1].forceClose
  /\ subs[1].conns = << "closed" >>
  /\ subs[1].subscriptionId = 1
  /\ subs[1].disconnects = 0
  /\ subs[1].messages = << >>
  /\ ~subs[2].forceClose
  /\ subs[2].conns = << "closed", "open" >>
  /\ subs[2].subscriptionId = 2
  /\ Len(subs[2].messages) = 1
  /\ last.op = "notification"
  /\ last.arg = 2
  /\ last.fired = << [cb |-> "onMessage", sub |-> 2] >>

\* what the hook of a block subscription made of the i-th head block
Outcome(method, i) == subs[method].out[i]

\* C29: for every block the node sent exactly one of isMicro, isMacro,
\* isElection is true: isMicro iff the block lacks the key isElectionBlock,
\* isElection iff the key is there with true, isMacro iff it is there with
\* false; so of the three block subscriptions exactly one hands the block to
\* onMessage.  For a notification without a block every filter throws, and
\* no hook treats that as a block the filter rejected.
C29_BlockFiltersPartition ==
  \A i \in 1..Len(notified) :
    LET b == notified[i] IN
      IF b = NoBlock
        THEN /\ isMicro(b).threw /\ isMacro(b).threw /\ isElection(b).threw
             /\ \A method \in BlockMethods :
                   subs[method].seen >= i => Outcome(method, i) = "raised"
        ELSE /\ ~isMicro(b).threw /\ ~isMacro(b).threw /\ ~isElection(b).threw
             /\ isMicro(b).value = ~b.has
             /\ isElection(b).value = (b.has /\ b.isElectionBlock)
             /\ isMacro(b).value = (b.has /\ ~b.isElectionBlock)
             /\ Cardinality({ method \in BlockMethods :
                                BlockFilter(method, b).value }) = 1
             /\ (\A method \in BlockMethods : subs[method].seen >= i) =>
                   Cardinality({ method \in BlockMethods :
                                   Outcome(method, i) = "delivered" }) = 1

\* C29 witness: a macro block and a notification without a block went to all
\* three subscriptions: the macro subscription alone delivered the block,
\* and all three hooks raised on the missing one
C29_Witness ==
  /\ Len(notified) = 2
  /\ notified[1].has /\ ~notified[1].isElectionBlock
  /\ notified[2] = NoBlock
  /\ \A method \in BlockMethods : subs[method].seen = 2
  /\ subs["subscribeForMacroBlocks"].out = << "delivered", "raised" >>
  /\ subs["subscribeForMicroBlocks"].out = << "dropped", "raised" >>
  /\ subs["subscribeForElectionBlocks"].out = << "dropped", "raised" >>

\* C30: the derived endpoint has the query string of the given one; an
\* endpoint that is ws or wss with path /ws already is derived to itself
\* (same scheme, host, port, path and query); and deriving from a derived
\* endpoint gives that endpoint again.
C30_DerivationKeepsQueryIdempotent ==
  /\ [](url # NoUrl =>
          /\ url.search = endpoint.query
          /\ (endpoint.scheme \in {Chars("ws"), Chars("wss")} /\ endpoint.path = "/ws") =>
               /\ url.protocol = endpoint.scheme
               /\ url.hostname = endpoint.host
               /\ EffectivePort(url.protocol, url.port) =
                    EffectivePort(endpoint.scheme, endpoint.port)
               /\ url.pathname = endpoint.path
               /\ url.search = endpoint.query)
  /\ [][last'.op = "rederive" => (url' = url /\ toString(url') = endpoint')]_vars

\* C30 witness: ws://localhost/ws?token=mysecrettoken was derived to itself
\* and derived once more, with the same result
C30_Witness ==
  /\ last.op = "rederive"
  /\ endpoint = [scheme |-> Chars("ws"), host |-> "localhost", port |-> "",
                 path |-> "/ws", query |-> "token=mysecrettoken"]
  /\ url = [protocol |-> Chars("ws"), hostname |-> "localhost", port |-> "",
            pathname |-> "/ws", search |-> "token=mysecrettoken"]
====
